---- MODULE Spec2Model ----
(***************************************************************************)
(* s3ncdu: the Tree of slash-split object keys, the concurrent Scanner    *)
(* that fills it, and the browse/delete state machine of the UI.           *)
(*                                                                         *)
(* A str is a finite sequence of code points (integers); a Node is named   *)
(* by the path of segment names that leads to it from the root, because a  *)
(* node is reachable only through its parent's dict, keyed by its name.    *)
(* A dict is the sequence of its keys in insertion order.                  *)
(***************************************************************************)
EXTENDS Integers, Sequences, FiniteSets, TLC

VARIABLES
    tree,          \* Tree: path |-> [dir, size, key, ch]
    bucket,        \* the store: object key |-> size
    phase,         \* where main() is: Scanning, Browsing, Fatal, Exited, Crashed
    scanpc,        \* where Scanner.scan is: discover, gather, listing, returned, raised
    prefixes,      \* scan's local list of partitions
    tasks,         \* per partition: [st, token] of its _guarded task
    sem,           \* value of the asyncio.Semaphore
    total,         \* main's progress counter
    served,        \* number of page responses the store has delivered
    cwd,           \* UI.cwd
    sort_by,       \* UI.sort_by
    items,         \* UI._items
    cursor,        \* DataTable.cursor_row
    confirm_node,  \* UI._confirm_node
    status,        \* what the #status line shows
    delpc,         \* where action_confirm_yes is: idle, deleting
    delkeys,       \* action_confirm_yes' local keys
    deli,          \* action_confirm_yes' loop variable i
    calls,         \* delete_objects calls issued by the running/last confirm_yes
    timer,         \* a set_timer(2, _update_status) callback is pending
    ndeletes       \* number of confirm_yes handlers started

scanVars == <<scanpc, prefixes, tasks, sem, total, served>>
uiVars   == <<cwd, sort_by, items, cursor, confirm_node, status,
              delpc, delkeys, deli, calls, timer, ndeletes>>
vars     == <<tree, bucket, phase, scanpc, prefixes, tasks, sem, total, served,
              cwd, sort_by, items, cursor, confirm_node, status,
              delpc, delkeys, deli, calls, timer, ndeletes>>

\* ---------------------------------------------------------------- strings

Slash == 47

\* ord() of the characters used to write keys down
Ord == [c \in {"/", "0", "1", "a", "b", "c", "d", "p", "q", "x", "y", "z", "A", "B"} |->
          CASE c = "/" -> 47 [] c = "0" -> 48 [] c = "1" -> 49
            [] c = "a" -> 97 [] c = "b" -> 98 [] c = "c" -> 99 [] c = "d" -> 100
            [] c = "p" -> 112 [] c = "q" -> 113
            [] c = "x" -> 120 [] c = "y" -> 121 [] c = "z" -> 122
            [] c = "A" -> 65 [] c = "B" -> 66]

\* the str written as a tuple of one-character strings
Str(s) == [i \in 1..Len(s) |-> Ord[s[i]]]

Min(a, b) == IF a < b THEN a ELSE b

\* s[:n] == p
StartsWith(s, p) == Len(p) <= Len(s) /\ SubSeq(s, 1, Len(p)) = p

\* a < b on str (code point order, a proper prefix first)
StrLess(a, b) ==
    \E i \in 1..(Min(Len(a), Len(b)) + 1) :
        /\ \A j \in 1..(i - 1) : a[j] = b[j]
        /\ \/ i > Len(a) /\ i <= Len(b)
           \/ i <= Len(a) /\ i <= Len(b) /\ a[i] < b[i]

\* [p for p in key.split("/") if p]
RECURSIVE SplitFrom(_, _, _, _)
SplitFrom(key, i, cur, acc) ==
    IF i > Len(key)
    THEN IF cur = <<>> THEN acc ELSE Append(acc, cur)
    ELSE IF key[i] = Slash
         THEN SplitFrom(key, i + 1, <<>>, IF cur = <<>> THEN acc ELSE Append(acc, cur))
         ELSE SplitFrom(key, i + 1, Append(cur, key[i]), acc)

Split(key) == SplitFrom(key, 1, <<>>, <<>>)

\* ------------------------------------------------------------- Node, Tree

Root == <<>>
None == << <<>> >>

Front(p) == SubSeq(p, 1, Len(p) - 1)
Last(p) == p[Len(p)]

\* Node("/", dir=True) as the only node
NewTree == (Root :> [dir |-> TRUE, size |-> 0, key |-> <<>>, ch |-> <<>>])

\* p in node.ch
InCh(t, node, p) == \E k \in 1..Len(t[node].ch) : t[node].ch[k] = p

\* sum(c.size for c in self.ch.values()), children lo..hi
RECURSIVE SumRange(_, _, _, _)
SumRange(t, node, lo, hi) ==
    IF lo > hi THEN 0
    ELSE IF lo = hi THEN t[Append(node, t[node].ch[lo])].size
    ELSE LET m == (lo + hi) \div 2
         IN SumRange(t, node, lo, m) + SumRange(t, node, m + 1, hi)

SumCh(t, node) == SumRange(t, node, 1, Len(t[node].ch))

\* the walk of Tree.insert from segment i on; yields the tree after the walk
RECURSIVE Walk(_, _, _, _, _, _)
Walk(t, key, size, parts, i, node) ==
    IF i > Len(parts) THEN t
    ELSE LET p == parts[i]
             leaf == (i = Len(parts))
             child == Append(node, p)
             t1 == IF ~InCh(t, node, p)
                   THEN [t EXCEPT ![node].ch = Append(@, p)] @@
                        (child :> [dir |-> ~leaf, size |-> IF leaf THEN size ELSE 0,
                                   key |-> IF leaf THEN key ELSE <<>>, ch |-> <<>>])
                   ELSE IF leaf
                   THEN [t EXCEPT ![child].size = size, ![child].key = key]
                   ELSE t
         IN Walk(t1, key, size, parts, i + 1, child)

\* the bubble-up loop of Tree.insert, from p to the root
RECURSIVE Bubble(_, _)
Bubble(t, p) ==
    LET t1 == [t EXCEPT ![p].size = SumCh(t, p)]
    IN IF p = Root THEN t1 ELSE Bubble(t1, Front(p))

Insert(t, key, size) ==
    LET parts == Split(key)
        t1 == Walk(t, key, size, parts, 1, Root)
    IN IF parts = <<>> THEN t1 ELSE Bubble(t1, Front(parts))

\* Node.recalc
RECURSIVE Recalc(_, _)
Recalc(t, p) ==
    LET t1 == IF t[p].dir THEN [t EXCEPT ![p].size = SumCh(t, p)] ELSE t
    IN IF p = Root THEN t1 ELSE Recalc(t1, Front(p))

\* del d[name]
DictDel(ch, name) ==
    LET keep == {k \in 1..Len(ch) : ch[k] # name}
        Nth(n) == CHOOSE k \in keep : Cardinality({j \in keep : j < k}) = n - 1
    IN [n \in 1..Cardinality(keep) |-> ch[Nth(n)]]

\* Tree.remove
Remove(t, node) ==
    IF node # Root /\ InCh(t, Front(node), Last(node))
    THEN LET par == Front(node)
             t1 == [q \in {q \in DOMAIN t : ~StartsWith(q, node)} |->
                       IF q = par THEN [t[q] EXCEPT !.ch = DictDel(@, Last(node))]
                       ELSE t[q]]
         IN Recalc(t1, par)
    ELSE t

\* Node.all_keys, children lo..hi of a directory
RECURSIVE AllKeys(_, _), AllKeysRange(_, _, _, _)
AllKeys(t, node) ==
    IF ~t[node].dir
    THEN IF t[node].key # <<>> THEN <<t[node].key>> ELSE <<>>
    ELSE AllKeysRange(t, node, 1, Len(t[node].ch))

AllKeysRange(t, node, lo, hi) ==
    IF lo > hi THEN <<>>
    ELSE IF lo = hi THEN AllKeys(t, Append(node, t[node].ch[lo]))
    ELSE LET m == (lo + hi) \div 2
         IN AllKeysRange(t, node, lo, m) \o AllKeysRange(t, node, m + 1, hi)

\* Node.count
RECURSIVE Count(_, _), CountRange(_, _, _, _)

\* a count that takes a childless node for one object, directory or not
CountEmptyAsOne(t, node) ==
    IF ~t[node].dir \/ t[node].ch = <<>> THEN 1
    ELSE CountRange(t, node, 1, Len(t[node].ch))

Count(t, node) ==
    IF ~t[node].dir THEN 1 ELSE CountRange(t, node, 1, Len(t[node].ch))

CountRange(t, node, lo, hi) ==
    IF lo > hi THEN 0
    ELSE IF lo = hi THEN Count(t, Append(node, t[node].ch[lo]))
    ELSE LET m == (lo + hi) \div 2
         IN CountRange(t, node, lo, m) + CountRange(t, node, m + 1, hi)

Range(s) == {s[i] : i \in 1..Len(s)}

\* ---------------------------------------------------------------- store

MaxKeys == 1000
PageSize == 2

\* the keys of a set in the order the store lists them
SortSet(S) ==
    [r \in 1..Cardinality(S) |->
        CHOOSE x \in S : Cardinality({y \in S : StrLess(y, x)}) = r - 1]

\* list_objects_v2(Prefix=prefix, Delimiter="/")["CommonPrefixes"]
ListCommon(b, prefix) ==
    LET under == {k \in DOMAIN b : StartsWith(k, prefix)}
        HasDelim(k) == \E i \in (Len(prefix) + 1)..Len(k) : k[i] = Slash
        Cut(k) == LET i == CHOOSE i \in (Len(prefix) + 1)..Len(k) :
                               /\ k[i] = Slash
                               /\ \A j \in (Len(prefix) + 1)..(i - 1) : k[j] # Slash
                  IN SubSeq(k, 1, i)
    IN SortSet({Cut(k) : k \in {k \in under : HasDelim(k)}})

\* all keys list_objects_v2(Prefix=prefix) pages through
ListKeys(b, prefix) == SortSet({k \in DOMAIN b : StartsWith(k, prefix)})

\* one page of list_objects_v2(Prefix=prefix, MaxKeys=1000, ContinuationToken=token);
\* a token is the number of keys already returned, 0 for no token
PageLimit == Min(MaxKeys, PageSize)

ListPage(b, prefix, token) ==
    LET keys == ListKeys(b, prefix)
        upto == Min(token + PageLimit, Len(keys))
    IN [Contents |-> [i \in 1..(upto - token) |->
                         [Key |-> keys[token + i], Size |-> b[keys[token + i]]]],
        IsTruncated |-> upto < Len(keys),
        NextContinuationToken |-> upto]

\* -------------------------------------------------------------- Scanner

SemaphoreLimit == 16
DiscoverDepth == 2

\* string.digits + string.ascii_lowercase
SplitChars == [i \in 1..36 |-> IF i <= 10 THEN 47 + i ELSE 86 + i]

\* Scanner._split_prefix
SplitPrefix(prefix) == [i \in 1..Len(SplitChars) |-> Append(prefix, SplitChars[i])]

\* Scanner._discover
RECURSIVE Discover(_, _, _), DiscoverEach(_, _, _, _)
Discover(b, prefix, depth) ==
    IF depth <= 0 THEN <<prefix>>
    ELSE LET common == ListCommon(b, prefix)
         IN IF common = <<>> THEN <<prefix>>
            ELSE DiscoverEach(b, common, 1, depth - 1)

DiscoverEach(b, common, i, depth) ==
    IF i > Len(common) THEN <<>>
    ELSE Discover(b, common[i], depth) \o DiscoverEach(b, common, i + 1, depth)

\* a fallback that keeps the split prefix itself beside its 36 extensions
PartitionsWithBase(b) ==
    LET found == Discover(b, <<>>, DiscoverDepth)
    IN IF Len(found) <= 1
       THEN LET base == IF found # <<>> THEN found[1] ELSE <<>>
            IN <<base>> \o SplitPrefix(base)
       ELSE found

\* the partitions Scanner.scan lists
Partitions(b) ==
    LET found == Discover(b, <<>>, DiscoverDepth)
    IN IF Len(found) <= 1
       THEN LET base == IF found # <<>> THEN found[1] ELSE <<>>
            IN SplitPrefix(base)
       ELSE found

\* a semaphore that never blocks
CanAcquireAlways(s) == TRUE

\* asyncio.Semaphore: acquire goes through without waiting
CanAcquire(s) == s > 0

\* gather starts the _guarded tasks in order; each takes the semaphore if it can
RECURSIVE StartTasks(_, _, _)
StartTasks(n, i, s) ==
    IF i > n THEN <<>>
    ELSE IF CanAcquire(s)
         THEN <<[st |-> "listing", token |-> 0]>> \o StartTasks(n, i + 1, s - 1)
         ELSE <<[st |-> "waiting", token |-> 0]>> \o StartTasks(n, i + 1, s)

InFlight(ts) == {t \in 1..Len(ts) : ts[t].st = "listing"}

\* the for loop of _list_prefix over the objects lo..hi of a page
RECURSIVE InsertAll(_, _, _, _)
InsertAll(t, objs, lo, hi) ==
    IF lo > hi THEN t
    ELSE IF lo = hi THEN Insert(t, objs[lo].Key, objs[lo].Size)
    ELSE LET m == (lo + hi) \div 2
             left == InsertAll(t, objs, lo, m)
         IN IF DOMAIN left = {} THEN left ELSE InsertAll(left, objs, m + 1, hi)

\* ------------------------------------------------------------------- UI

\* str.lower
Lower(name) == [i \in 1..Len(name) |-> IF name[i] >= 65 /\ name[i] <= 90
                                       THEN name[i] + 32 ELSE name[i]]

\* the sort key of x is strictly ahead of the sort key of y
Ahead(t, by, x, y) ==
    IF by = "size" THEN t[x].size > t[y].size
    ELSE StrLess(Lower(Last(x)), Lower(Last(y)))

\* Node.sorted: list.sort is stable, also with reverse=True, so a child stands
\* behind the children strictly ahead of it and behind the earlier children
\* of the dict it ties with
Sorted(t, node, by) ==
    LET ch == t[node].ch
        n == Len(ch)
        C(i) == Append(node, ch[i])
        Before(i) == {j \in 1..n : \/ Ahead(t, by, C(j), C(i))
                                   \/ ~Ahead(t, by, C(i), C(j)) /\ j < i}
        placed == {<<Cardinality(Before(i)) + 1, C(i)>> : i \in 1..n}
    IN [r \in 1..n |-> (CHOOSE pr \in placed : pr[1] = r)[2]]

\* ------------------------------------------------- the Tree on its own

MaxKeyCount == 4

\* keys handed to Tree.insert
TreeKeys == LET all == << Str(<<"a">>), Str(<<"a", "/", "b">>), Str(<<"c">>),
                          Str(<<"a", "/", "/", "b">>), Str(<<"a", "/", "b", "/", "c">>),
                          Str(<<"A">>), Str(<<"/">>) >>
            IN {all[i] : i \in 1..Min(MaxKeyCount, Len(all))}

MaxSize == 2
Sizes == 1..MaxSize

IdleScan ==
    /\ scanpc = "discover" /\ prefixes = <<>> /\ tasks = <<>>
    /\ sem = SemaphoreLimit /\ total = 0 /\ served = 0

IdleUI ==
    /\ cwd = Root /\ sort_by = "size" /\ items = <<>>
    /\ cursor = 0 /\ confirm_node = None /\ status = "none"
    /\ delpc = "idle" /\ delkeys = <<>> /\ deli = 0 /\ calls = <<>>
    /\ timer = FALSE /\ ndeletes = 0

InitTree ==
    /\ tree = NewTree
    /\ bucket = <<>>
    /\ phase = "Scanning"
    /\ IdleScan
    /\ IdleUI

TreeInsert(key, size) ==
    /\ tree' = Insert(tree, key, size)
    /\ UNCHANGED <<bucket, phase, scanVars, uiVars>>

TreeRemove(node) ==
    /\ tree' = Remove(tree, node)
    /\ UNCHANGED <<bucket, phase, scanVars, uiVars>>

NextTree ==
    \/ \E key \in TreeKeys, size \in Sizes : TreeInsert(key, size)
    \/ \E node \in DOMAIN tree : TreeRemove(node)

SpecTree == InitTree /\ [][NextTree]_vars

\* every directory's size is the sum of its children's sizes
SizeInvariant(t) == \A p \in DOMAIN t : t[p].dir => t[p].size = SumCh(t, p)

\* C1: after every sequence of Tree.insert and Tree.remove, every directory
\* node's size equals the sum of the sizes of its immediate children.
C1_SizeInvariant == SizeInvariant(tree)

\* C12: Node.sorted('size') gives the children by size descending, children of
\* equal size by name ascending, case-insensitively, whatever the insertion
\* order; Node.sorted('name') gives them by name ascending, case-insensitively.
C12_SortedTiesByName ==
    \A node \in DOMAIN tree :
        LET bs == Sorted(tree, node, "size")
            bn == Sorted(tree, node, "name")
            NameAfter(x, y) == StrLess(Lower(Last(y)), Lower(Last(x)))
        IN /\ \A i, j \in 1..Len(bs) :
                  i < j => \/ tree[bs[i]].size > tree[bs[j]].size
                           \/ /\ tree[bs[i]].size = tree[bs[j]].size
                              /\ ~NameAfter(bs[i], bs[j])
           /\ \A i, j \in 1..Len(bn) : i < j => ~NameAfter(bn[i], bn[j])

\* C14: after any sequence of Tree.insert and Tree.remove, count(node) equals
\* len(all_keys(node)) for every node: the root, directories a removal left
\* empty, and leaves.
C14_CountIsNumberOfKeys ==
    \A p \in DOMAIN tree : Count(tree, p) = Len(AllKeys(tree, p))

C14_Witness ==
    /\ \E p \in DOMAIN tree : p # Root /\ tree[p].dir /\ tree[p].ch = <<>>
    /\ \E p \in DOMAIN tree : ~tree[p].dir
    /\ Count(tree, Root) = 1

\* C15: every node is well-typed: it has a non-empty key exactly if it is not
\* a directory, a non-directory has no children, and a leaf's key splits on
\* '/' to the path of names from the root to the leaf.
C15_WellTyped ==
    \A p \in DOMAIN tree :
        /\ (tree[p].key # <<>>) <=> ~tree[p].dir
        /\ ~tree[p].dir => tree[p].ch = <<>>
        /\ ~tree[p].dir => Split(tree[p].key) = p

\* the same nodes with the same names, flags, keys, sizes and parents, the
\* order of children aside
SameTree(t, u) ==
    /\ DOMAIN t = DOMAIN u
    /\ \A p \in DOMAIN t :
           /\ t[p].dir = u[p].dir /\ t[p].key = u[p].key /\ t[p].size = u[p].size
           /\ Range(t[p].ch) = Range(u[p].ch)

\* C16: for every leaf n with key k and size s, Tree.remove(n) followed by
\* Tree.insert(k, s) gives back the tree there was before the removal, the
\* order of children aside.
C16_RemoveInsertRoundTrip ==
    \A n \in DOMAIN tree :
        (~tree[n].dir /\ tree[n].ch = <<>>) =>
            SameTree(Insert(Remove(tree, n), tree[n].key, tree[n].size), tree)

\* ------------------------------------------------------------- the scan

MaxObjects == 4
WideBudget == 2

\* the objects a bucket may hold, with their sizes
ScanObjects == << Str(<<"a", "/", "/", "b">>), Str(<<"a", "/", "b", "/", "c">>),
                  Str(<<"x", "/", "y">>), Str(<<"x", "/", "z">>), Str(<<"x", "/", "0">>),
                  Str(<<"x">>), Str(<<"A">>) >>

BucketOf(S) == [k \in S |-> CHOOSE i \in 1..Len(ScanObjects) : ScanObjects[i] = k]

\* one object under each of SemaphoreLimit + 1 top-level prefixes
WideBucket == [k \in {<<SplitChars[i], Slash, 120>> : i \in 1..(SemaphoreLimit + 1)} |-> 1]

Buckets == {BucketOf(S) : S \in {S \in SUBSET Range(ScanObjects) : Cardinality(S) <= MaxObjects}}
           \cup {WideBucket}

InitScan ==
    /\ tree = NewTree
    /\ bucket \in Buckets
    /\ phase = "Scanning"
    /\ IdleScan
    /\ IdleUI

\* scan up to the await of gather: discovery, the fallback split, and the start
\* of the _guarded tasks; or a listing call of the discovery raises
ScanDiscover ==
    /\ phase = "Scanning" /\ scanpc = "discover"
    /\ \/ /\ prefixes' = Partitions(bucket)
          /\ tasks' = StartTasks(Len(prefixes'), 1, sem)
          /\ sem' = sem - Cardinality(InFlight(tasks'))
          /\ scanpc' = "listing"
          /\ UNCHANGED phase
       \/ /\ scanpc' = "raised"
          /\ phase' = "Fatal"
          /\ UNCHANGED <<prefixes, tasks, sem>>
    /\ UNCHANGED <<tree, bucket, total, served, uiVars>>

\* a waiter woken by a release takes the semaphore (waiters queue in task order)
Acquire(t) ==
    /\ scanpc = "listing"
    /\ tasks[t].st = "waiting"
    /\ \A u \in 1..(t - 1) : tasks[u].st # "waiting"
    /\ CanAcquire(sem)
    /\ tasks' = [tasks EXCEPT ![t].st = "listing"]
    /\ sem' = sem - 1
    /\ UNCHANGED <<tree, bucket, phase, scanpc, prefixes, total, served, uiVars>>

\* the store delivers at most WideBudget pages to a scan of more than
\* SemaphoreLimit partitions
MayServe == Len(prefixes) > SemaphoreLimit => served < WideBudget

\* a loop of _list_prefix that stops after its first page
PageServedOnce(t) ==
    /\ scanpc = "listing"
    /\ tasks[t].st = "listing"
    /\ LET resp == ListPage(bucket, prefixes[t], tasks[t].token)
       IN /\ tree' = InsertAll(tree, resp.Contents, 1, Len(resp.Contents))
          /\ total' = total + Len(resp.Contents)
          /\ tasks' = [tasks EXCEPT ![t].st = "done"]
          /\ sem' = sem + 1
    /\ served' = served + 1
    /\ UNCHANGED <<bucket, phase, scanpc, prefixes, uiVars>>

\* one turn of the loop of _list_prefix in task t, from the response to its
\* request on: insert, report, go on with the cursor or finish
PageServed(t) ==
    /\ scanpc = "listing"
    /\ tasks[t].st = "listing"
    /\ LET resp == ListPage(bucket, prefixes[t], tasks[t].token)
       IN /\ tree' = InsertAll(tree, resp.Contents, 1, Len(resp.Contents))
          /\ total' = total + Len(resp.Contents)
          /\ IF resp.IsTruncated
             THEN /\ tasks' = [tasks EXCEPT ![t].token = resp.NextContinuationToken]
                  /\ sem' = sem
             ELSE /\ tasks' = [tasks EXCEPT ![t].st = "done"]
                  /\ sem' = sem + 1
    /\ served' = served + 1
    /\ UNCHANGED <<bucket, phase, scanpc, prefixes, uiVars>>

\* a page of task t's listing arrives
PageArrives(t) == MayServe /\ PageServed(t)

\* the page request of task t raises and gather keeps the exception to itself
PageFailsSwallowed(t) ==
    /\ scanpc = "listing"
    /\ tasks[t].st = "listing"
    /\ MayServe
    /\ tasks' = [tasks EXCEPT ![t].st = "failed"]
    /\ sem' = sem + 1
    /\ served' = served + 1
    /\ UNCHANGED <<tree, bucket, phase, scanpc, prefixes, total, uiVars>>

\* the page request of task t raises: the task ends, gather raises, scan raises
\* out of asyncio.run and main ends
PageFails(t) ==
    /\ scanpc = "listing"
    /\ tasks[t].st = "listing"
    /\ MayServe
    /\ tasks' = [tasks EXCEPT ![t].st = "failed"]
    /\ sem' = sem + 1
    /\ scanpc' = "raised"
    /\ phase' = "Fatal"
    /\ served' = served + 1
    /\ UNCHANGED <<tree, bucket, prefixes, total, uiVars>>

\* gather returns when every task is done; scan returns the tree
ScanReturn ==
    /\ scanpc = "listing"
    /\ \A t \in 1..Len(tasks) : tasks[t].st = "done"
    /\ scanpc' = "returned"
    /\ UNCHANGED <<tree, bucket, phase, prefixes, tasks, sem, total, served, uiVars>>

\* UI._refresh, but for the cursor and for the status line, which the
\* handlers go on to set (_refresh itself leaves the totals there)
Refresh(t, c, by) ==
    /\ confirm_node' = None
    /\ items' = Sorted(t, c, by)

\* main after the scan: UI(tree, s3, bucket).run(), up to on_mount
MainRunUI ==
    /\ phase = "Scanning" /\ scanpc = "returned"
    /\ phase' = "Browsing"
    /\ cwd' = Root
    /\ sort_by' = "size"
    /\ Refresh(tree, cwd', sort_by')
    /\ status' = "totals"
    /\ cursor' = 0
    /\ UNCHANGED <<tree, bucket, scanVars, delpc, delkeys, deli, calls,
                   timer, ndeletes>>

NextScan ==
    \/ ScanDiscover
    \/ \E t \in 1..Len(tasks) : Acquire(t)
    \/ \E t \in 1..Len(tasks) : PageArrives(t)
    \/ \E t \in 1..Len(tasks) : PageFails(t)
    \/ ScanReturn
    \/ MainRunUI

SpecScan == InitScan /\ [][NextScan]_vars

\* the keys the partitions' listings return
Listed == {k \in DOMAIN bucket : \E i \in 1..Len(prefixes) : StartsWith(k, prefixes[i])}

\* C2: the partitions scan lists cover the bucket: every object key has a
\* partition as a string prefix.
C2_PartitionsCover ==
    scanpc \in {"listing", "returned"} =>
        \A k \in DOMAIN bucket : \E i \in 1..Len(prefixes) : StartsWith(k, prefixes[i])

\* C3: after scan succeeds the Tree holds every listed object exactly once,
\* with its listed size.
C3_TreeHoldsListed ==
    scanpc = "returned" =>
        LET keys == AllKeys(tree, Root)
        IN /\ Range(keys) = Listed
           /\ Len(keys) = Cardinality(Listed)
           /\ \A p \in DOMAIN tree :
                  (~tree[p].dir /\ tree[p].key \in DOMAIN bucket)
                      => tree[p].size = bucket[tree[p].key]

\* C4: at most 16 partition tasks hold the semaphore at any moment, and a task
\* behind the first 16 lists only after another has finished or failed.
C4_AtMostSixteenInFlight ==
    /\ Cardinality(InFlight(tasks)) <= SemaphoreLimit
    /\ sem = SemaphoreLimit - Cardinality(InFlight(tasks))
    /\ \A t \in 1..Len(tasks) :
           (t > SemaphoreLimit /\ tasks[t].st # "waiting")
               => \E u \in 1..Len(tasks) : u # t /\ tasks[u].st \in {"done", "failed"}

C4_Witness ==
    /\ Cardinality(InFlight(tasks)) = SemaphoreLimit
    /\ \E t \in InFlight(tasks) : t > SemaphoreLimit
    /\ \E t \in 1..Len(tasks) : tasks[t].st = "waiting"

\* C5: a failed listing call, in discovery or in a page fetch, makes the scan
\* raise: main ends in Fatal, and Browsing is entered only with the Tree of a
\* scan that returned with every partition listed to its end.
C5_ScanFailureIsFatal ==
    /\ (scanpc = "raised" \/ \E t \in 1..Len(tasks) : tasks[t].st = "failed")
           => (phase = "Fatal" /\ scanpc = "raised")
    /\ phase = "Browsing"
           => (scanpc = "returned" /\ \A t \in 1..Len(tasks) : tasks[t].st = "done")

C5_Witness ==
    /\ \E t \in 1..Len(tasks) : tasks[t].st = "failed"
    /\ \E t \in 1..Len(tasks) : tasks[t].st = "done"
    /\ tree # NewTree
    /\ phase = "Fatal"

\* C6: while partition tasks run, every state between two steps of the tasks
\* (a point where another task can observe or mutate the Tree) shows a Tree
\* whose directory sizes are the sums of their children.
C6_TreeConsistentBetweenSteps ==
    scanpc = "listing" => SizeInvariant(tree)

\* a store that answers a scan of more than SemaphoreLimit partitions in the
\* order of the tasks
InTurn(t) ==
    Len(prefixes) > SemaphoreLimit => \A u \in 1..(t - 1) : tasks[u].st # "listing"

\* a page of task t's listing arrives from that store
PageInTurn(t) == InTurn(t) /\ PageServed(t)

NextServe ==
    \/ ScanDiscover
    \/ \E t \in 1..Len(tasks) : Acquire(t)
    \/ \E t \in 1..Len(tasks) : PageInTurn(t)
    \/ \E t \in 1..Len(tasks) : PageFails(t)
    \/ ScanReturn
    \/ MainRunUI

\* scan can start its discovery
DiscoverReady == phase = "Scanning" /\ scanpc = "discover"

\* a request of some task is with the store
AnswerReady == scanpc = "listing" /\ \E t \in 1..Len(tasks) : tasks[t].st = "listing"

\* the event loop runs whatever is ready, and the store answers every request,
\* with a page or with an error; for discovery and for the answers weak
\* fairness is written out with the enabling condition of the action
FairServe ==
    /\ WF_vars(\E t \in 1..Len(tasks) : Acquire(t))
    /\ WF_vars(ScanReturn)
    /\ ([]<>(~DiscoverReady) \/ []<><<ScanDiscover>>_vars)
    /\ ([]<>(~AnswerReady)
           \/ []<><<\E t \in 1..Len(tasks) : PageInTurn(t) \/ PageFails(t)>>_vars)

SpecServe == InitScan /\ [][NextServe]_vars /\ FairServe

\* C18: within a partition the page requests go one after another, the first
\* without a cursor and each later one with the cursor the page before it
\* returned; all objects of a page are in the Tree before the next request;
\* nothing is requested after a page that reports no more pages; and if no
\* listing call fails, every partition task finishes and scan returns.
C18_PagesInSequenceAndScanEnds ==
    /\ [][ Len(tasks') = Len(tasks) =>
             /\ Cardinality({t \in 1..Len(tasks) : tasks'[t] # tasks[t]}) <= 1
             /\ \A t \in 1..Len(tasks) :
                    tasks'[t] # tasks[t] =>
                        CASE tasks[t].st = "waiting" ->
                                 tasks'[t] = [st |-> "listing", token |-> 0]
                          [] tasks[t].st = "listing" ->
                                 LET resp == ListPage(bucket, prefixes[t], tasks[t].token)
                                 IN \/ tasks'[t] = [st |-> "failed", token |-> tasks[t].token]
                                    \/ /\ tree' = InsertAll(tree, resp.Contents,
                                                            1, Len(resp.Contents))
                                       /\ IF resp.IsTruncated
                                          THEN tasks'[t] = [st |-> "listing",
                                                            token |-> resp.NextContinuationToken]
                                          ELSE tasks'[t] = [st |-> "done",
                                                            token |-> tasks[t].token]
                          [] OTHER -> FALSE
          ]_vars
    /\ ([](scanpc # "raised") =>
            <>(scanpc = "returned" /\ \A t \in 1..Len(tasks) : tasks[t].st = "done"))

C18_Witness ==
    /\ scanpc = "returned"
    /\ Len(tasks) >= 2
    /\ \E t \in 1..Len(tasks) : tasks[t].st = "done" /\ tasks[t].token > 0

\* C11: whenever the root listing (empty prefix, delimiter '/') returns 0 or 1
\* common prefixes, the scan lists exactly 36 partitions, one per character of
\* 0-9a-z appended to one base, whatever the listings below return.
C11_FallbackGivesThirtySix ==
    (scanpc \in {"listing", "returned"} /\ Len(ListCommon(bucket, <<>>)) <= 1) =>
        /\ Len(prefixes) = Len(SplitChars)
        /\ \A i \in 1..Len(SplitChars) :
               prefixes[i] = Append(Front(prefixes[1]), SplitChars[i])

\* C20: no partition of a scan is a string prefix of another, so every object
\* key is listed by at most one partition task and the progress count never
\* counts an object twice.
C20_PartitionsDisjoint ==
    /\ [][ ScanDiscover =>
             /\ \A i, j \in 1..Len(prefixes') :
                    i # j => ~StartsWith(prefixes'[i], prefixes'[j])
             /\ \A k \in DOMAIN bucket :
                    Cardinality({i \in 1..Len(prefixes') :
                                    StartsWith(k, prefixes'[i])}) <= 1
          ]_vars
    /\ [][ scanpc # "discover" => UNCHANGED <<prefixes, bucket>> ]_vars
    /\ [](total <= Cardinality(DOMAIN bucket))
    /\ [](scanpc = "returned" => total = Cardinality(Listed))

C20_Witness ==
    /\ scanpc = "returned"
    /\ Len(prefixes) = 3
    /\ \A i \in 1..Len(prefixes) : \E k \in DOMAIN bucket : StartsWith(k, prefixes[i])
    /\ total = 4

\* ------------------------------------------------------- the UI session

BatchSize == 1000
MaxCursor == 1
MaxDeletes == 2
BigCount == 2500
BigFanout == 50

\* b/<directory i % BigFanout>/<leaf i>
BigKey(i) == <<98, Slash, 20000 + (i % BigFanout), Slash, 20000 + i>>

\* n objects spread over BigFanout directories under b/
BigObjects(n) == [i \in 1..n |-> [Key |-> BigKey(i), Size |-> 1 + (i % 2)]]

\* what a scan found, in the order it was inserted
SmallScenarios ==
    { << [Key |-> Str(<<"a", "/", "b">>), Size |-> 3],
         [Key |-> Str(<<"a", "/", "c">>), Size |-> 1],
         [Key |-> Str(<<"B">>), Size |-> 3],
         [Key |-> Str(<<"a", "/", "d", "/", "x">>), Size |-> 2] >>,
      << [Key |-> Str(<<"p", "/", "q", "/", "a">>), Size |-> 1],
         [Key |-> Str(<<"p", "/", "q", "/", "a", "/", "b">>), Size |-> 2] >> }

BigScenarios ==
    { BigObjects(BigCount), BigObjects(BatchSize),
      << [Key |-> Str(<<"a", "/", "x">>), Size |-> 1] >> }

\* the store holding the objects lo..hi (the scan found them there)
RECURSIVE BucketFound(_, _, _)
BucketFound(objs, lo, hi) ==
    IF lo > hi THEN <<>>
    ELSE IF lo = hi THEN (objs[lo].Key :> objs[lo].Size)
    ELSE LET m == (lo + hi) \div 2
         IN BucketFound(objs, m + 1, hi) @@ BucketFound(objs, lo, m)

\* main when scan has returned the Tree of the objects found
InitFound(objs) ==
    /\ tree = InsertAll(NewTree, objs, 1, Len(objs))
    /\ bucket = BucketFound(objs, 1, Len(objs))
    /\ total = Len(objs)
    /\ phase = "Scanning"
    /\ scanpc = "returned" /\ prefixes = <<>> /\ tasks = <<>>
    /\ sem = SemaphoreLimit /\ served = 0
    /\ IdleUI

InitUI == \E objs \in SmallScenarios : InitFound(objs)

InitDelete == \E objs \in BigScenarios : InitFound(objs)

Ready == phase = "Browsing" /\ delpc = "idle"

\* UI._sel
Sel == IF 0 <= cursor /\ cursor < Len(items) THEN items[cursor + 1] ELSE None

\* the then-branch of UI._cancel_confirm, the handler returning at once
Cancelled ==
    /\ confirm_node' = None
    /\ status' = "totals"
    /\ UNCHANGED <<tree, bucket, phase, scanVars, cwd, sort_by, items, cursor,
                   delpc, delkeys, deli, calls, timer, ndeletes>>

Nothing == UNCHANGED vars

\* the user moves the DataTable cursor to row r
MoveCursor(r) ==
    /\ Ready
    /\ r < Len(items) /\ r # cursor
    /\ cursor' = r
    /\ UNCHANGED <<tree, bucket, phase, scanVars, cwd, sort_by, items,
                   confirm_node, status, delpc, delkeys, deli, calls, timer, ndeletes>>

\* UI.on_data_table_row_selected
RowSelected ==
    /\ Ready
    /\ IF confirm_node # None THEN Cancelled
       ELSE LET node == Sel
            IN IF node # None /\ tree[node].dir /\ tree[node].ch # <<>>
               THEN /\ cwd' = node
                    /\ Refresh(tree, cwd', sort_by)
                    /\ status' = "totals"
                    /\ cursor' = 0
                    /\ UNCHANGED <<tree, bucket, phase, scanVars, sort_by,
                                   delpc, delkeys, deli, calls, timer, ndeletes>>
               ELSE Nothing

\* a go-up that leaves the cursor where _refresh put it
RowNamedFirst(its, nm) == 0

\* the row move_cursor is given by the loop of action_go_up over items
RowNamed(its, nm) ==
    LET hits == {i \in 1..Len(its) : Last(its[i]) = nm}
    IN IF hits = {} THEN 0 ELSE (CHOOSE i \in hits : \A j \in hits : i <= j) - 1

\* UI.action_go_up
ActionGoUp ==
    /\ Ready
    /\ IF confirm_node # None THEN Cancelled
       ELSE IF cwd = Root THEN Nothing
       ELSE /\ cwd' = Front(cwd)
            /\ Refresh(tree, cwd', sort_by)
            /\ status' = "totals"
            /\ cursor' = RowNamed(items', Last(cwd))
            /\ UNCHANGED <<tree, bucket, phase, scanVars, sort_by,
                           delpc, delkeys, deli, calls, timer, ndeletes>>

\* UI.action_delete
ActionDelete ==
    /\ Ready
    /\ IF confirm_node # None THEN Cancelled
       ELSE IF Sel = None THEN Nothing
       ELSE /\ confirm_node' = Sel
            /\ status' = "confirm"
            /\ UNCHANGED <<tree, bucket, phase, scanVars, cwd, sort_by, items,
                           cursor, delpc, delkeys, deli, calls, timer, ndeletes>>

\* a confirm-yes that deletes the row under the cursor
ActionConfirmYesOnCursor ==
    /\ Ready
    /\ IF confirm_node = None THEN Nothing
       ELSE /\ ndeletes < MaxDeletes
            /\ ndeletes' = ndeletes + 1
            /\ delkeys' = AllKeys(tree, IF Sel # None THEN Sel ELSE confirm_node)
            /\ status' = "deleting"
            /\ deli' = 0
            /\ calls' = <<>>
            /\ delpc' = "deleting"
            /\ UNCHANGED <<tree, bucket, phase, scanVars, cwd, sort_by, items,
                           cursor, confirm_node, timer>>

\* UI.action_confirm_yes up to its first delete_objects call
ActionConfirmYes ==
    /\ Ready
    /\ IF confirm_node = None THEN Nothing
       ELSE /\ ndeletes < MaxDeletes
            /\ ndeletes' = ndeletes + 1
            /\ delkeys' = AllKeys(tree, confirm_node)
            /\ status' = "deleting"
            /\ deli' = 0
            /\ calls' = <<>>
            /\ delpc' = "deleting"
            /\ UNCHANGED <<tree, bucket, phase, scanVars, cwd, sort_by, items,
                           cursor, confirm_node, timer>>

\* a slice that stops one key short
BatchShort(keys, i) == SubSeq(keys, i + 1, Min(i + BatchSize - 1, Len(keys)))

\* keys[i:i + 1000]
Batch(keys, i) == SubSeq(keys, i + 1, Min(i + BatchSize, Len(keys)))

\* one delete_objects call of the loop returns
DeleteBatch ==
    /\ phase = "Browsing" /\ delpc = "deleting"
    /\ deli < Len(delkeys)
    /\ calls' = Append(calls, Batch(delkeys, deli))
    /\ bucket' = [k \in DOMAIN bucket \ Range(Batch(delkeys, deli)) |-> bucket[k]]
    /\ deli' = deli + BatchSize
    /\ UNCHANGED <<tree, phase, scanVars, cwd, sort_by, items, cursor,
                   confirm_node, status, delpc, delkeys, timer, ndeletes>>

\* one delete_objects call of the loop raises: nothing catches it, the App ends
DeleteBatchFails ==
    /\ phase = "Browsing" /\ delpc = "deleting"
    /\ deli < Len(delkeys)
    /\ calls' = Append(calls, Batch(delkeys, deli))
    /\ delpc' = "raised"
    /\ phase' = "Crashed"
    /\ UNCHANGED <<tree, bucket, scanVars, cwd, sort_by, items, cursor,
                   confirm_node, status, delkeys, deli, timer, ndeletes>>

\* UI.action_confirm_yes after the loop
ConfirmYesEnd ==
    /\ phase = "Browsing" /\ delpc = "deleting"
    /\ deli >= Len(delkeys)
    /\ tree' = Remove(tree, confirm_node)
    /\ Refresh(tree', cwd, sort_by)
    /\ cursor' = IF items' # <<>> THEN Min(cursor, Len(items') - 1) ELSE 0
    /\ status' = "deleted"
    /\ timer' = TRUE
    /\ delpc' = "idle"
    /\ UNCHANGED <<bucket, phase, scanVars, cwd, sort_by, delkeys, deli,
                   calls, ndeletes>>

\* UI.action_confirm_cancel
ActionConfirmCancel ==
    /\ Ready
    /\ IF confirm_node # None THEN Cancelled ELSE Nothing

\* UI.action_sort_size, UI.action_sort_name
ActionSort(by) ==
    /\ Ready
    /\ IF confirm_node # None THEN Cancelled
       ELSE /\ sort_by' = by
            /\ Refresh(tree, cwd, sort_by')
            /\ status' = "totals"
            /\ cursor' = 0
            /\ UNCHANGED <<tree, bucket, phase, scanVars, cwd,
                           delpc, delkeys, deli, calls, timer, ndeletes>>

\* Binding("q", "quit"): App.action_quit
ActionQuit ==
    /\ Ready
    /\ phase' = "Exited"
    /\ UNCHANGED <<tree, bucket, scanVars, uiVars>>

\* the callback of set_timer(2, self._update_status)
TimerFires ==
    /\ Ready
    /\ timer
    /\ timer' = FALSE
    /\ status' = "totals"
    /\ UNCHANGED <<tree, bucket, phase, scanVars, cwd, sort_by, items, cursor,
                   confirm_node, delpc, delkeys, deli, calls, ndeletes>>

NextUI ==
    \/ MainRunUI
    \/ \E r \in 0..MaxCursor : MoveCursor(r)
    \/ RowSelected
    \/ ActionGoUp
    \/ ActionDelete
    \/ ActionConfirmYes
    \/ DeleteBatch
    \/ DeleteBatchFails
    \/ ConfirmYesEnd
    \/ ActionConfirmCancel
    \/ \E by \in {"size", "name"} : ActionSort(by)
    \/ ActionQuit
    \/ TimerFires

SpecUI == InitUI /\ [][NextUI]_vars

\* a session on a large Tree driven by enter, backspace, d and y alone
NextDelete ==
    \/ MainRunUI
    \/ RowSelected
    \/ ActionGoUp
    \/ ActionDelete
    \/ ActionConfirmYes
    \/ DeleteBatch
    \/ DeleteBatchFails
    \/ ConfirmYesEnd

SpecDelete == InitDelete /\ [][NextDelete]_vars

\* the key lists of the calls lo..hi, one after another
RECURSIVE Concat(_, _, _)
Concat(cs, lo, hi) ==
    IF lo > hi THEN <<>>
    ELSE IF lo = hi THEN cs[lo]
    ELSE LET m == (lo + hi) \div 2
         IN Concat(cs, lo, m) \o Concat(cs, m + 1, hi)

\* C7: in a confirm-yes whose keys span several batches, the keys of every
\* batch that has succeeded are gone from the Tree before the next batch is
\* issued, and so also when a later batch fails.
C7_SucceededBatchesLeaveTree ==
    (delpc \in {"deleting", "raised"} /\ Len(delkeys) > BatchSize) =>
        LET shown == Range(AllKeys(tree, Root))
        IN \A i \in 1..Min(deli, Len(delkeys)) : delkeys[i] \notin shown

\* C8: the delete calls of a confirm-yes carry between 1 and 1000 keys each,
\* never a key twice, and together exactly all_keys(node) in order; when the
\* loop is through there were ceil(n / 1000) of them.
C8_BatchesPartitionKeys ==
    delpc \in {"deleting", "raised"} =>
        LET keys == AllKeys(tree, confirm_node)
            n == Len(keys)
            sent == Concat(calls, 1, Len(calls))
        IN /\ \A c \in 1..Len(calls) : Len(calls[c]) >= 1 /\ Len(calls[c]) <= BatchSize
           /\ Cardinality(Range(sent)) = Len(sent)
           /\ Len(sent) <= n /\ sent = SubSeq(keys, 1, Len(sent))
           /\ Len(calls) <= (n + BatchSize - 1) \div BatchSize
           /\ (delpc = "deleting" /\ deli >= Len(delkeys))
                  => (sent = keys /\ Len(calls) = (n + BatchSize - 1) \div BatchSize)

C8_Witness ==
    /\ delpc = "deleting" /\ deli >= Len(delkeys)
    /\ Len(calls) = 3
    /\ Len(calls[1]) = BatchSize /\ Len(calls[3]) < BatchSize

\* C9: a failed delete batch leaves the session alive: no later batch, the
\* failure in the status area, the controller back in Browsing.
C9_BatchFailureKeepsSession ==
    delpc = "raised" =>
        /\ phase = "Browsing"
        /\ confirm_node = None
        /\ status = "error"

\* C10: in ConfirmingDelete, row select, go-up, request-delete, the two sorts,
\* quit and escape only cancel: back to Browsing with currentDir, the sort
\* order, the Tree and the store unchanged.
C10_OtherInputsOnlyCancel ==
    [][ ( /\ Ready /\ confirm_node # None
          /\ \/ RowSelected \/ ActionGoUp \/ ActionDelete \/ ActionConfirmCancel
             \/ ActionSort("size") \/ ActionSort("name") \/ ActionQuit )
        => ( /\ phase' = "Browsing"
             /\ confirm_node' = None
             /\ UNCHANGED <<cwd, sort_by, tree, bucket, calls, items>> ) ]_vars

\* C13: when a confirmed delete completes, the keys sent to the store are
\* exactly the keys of the objects whose nodes leave the Tree with the removed
\* subtree: none left out, no directory's empty key among them.
C13_DeletedKeysAreRemovedLeaves ==
    [][ ConfirmYesEnd =>
          Range(delkeys) = {tree[p].key :
                               p \in {q \in DOMAIN tree \ DOMAIN tree' : tree[q].key # <<>>}}
      ]_vars

\* C17: in Browsing a row select changes the directory only to a selected
\* directory with a child; go-up moves to the parent with the cursor on the
\* row of the directory just left, under the sort order in force; go-up at the
\* root changes neither the directory nor the cursor.
C17_SelectAndGoUp ==
    [][ /\ (Ready /\ confirm_node = None /\ RowSelected /\ cwd' # cwd) =>
              /\ Sel # None
              /\ tree[Sel].dir /\ tree[Sel].ch # <<>>
              /\ cwd' = Sel /\ Front(cwd') = cwd
        /\ (Ready /\ confirm_node = None /\ ActionGoUp) =>
              IF cwd = Root THEN UNCHANGED <<cwd, cursor>>
              ELSE /\ cwd' = Front(cwd)
                   /\ sort_by' = sort_by
                   /\ 0 <= cursor' /\ cursor' < Len(items')
                   /\ items'[cursor' + 1] = cwd
      ]_vars

C17_Witness ==
    /\ phase = "Browsing" /\ confirm_node = None
    /\ cwd = << Str(<<"a">>) >>
    /\ sort_by = "name"
    /\ cursor > MaxCursor
    /\ Sel # None /\ tree[Sel].dir /\ tree[Sel].ch # <<>>

\* the keys held by the nodes of the subtree of n
KeysBelow(t, n) == {t[p].key : p \in {q \in DOMAIN t : StartsWith(q, n) /\ t[q].key # <<>>}}

\* C19: in the browse phase the store is called to delete and the Tree loses
\* nodes only inside a confirm-yes taken while a node N awaits confirmation; N
\* is the row that was selected when request-delete fired, a child of the
\* current directory; every key sent belongs to N's subtree; confirm-yes in
\* Browsing does nothing; no cursor move or cancelling input makes another
\* node the target.
C19_DeleteOnlyConfirmedNode ==
    /\ [](confirm_node # None =>
              /\ confirm_node \in DOMAIN tree
              /\ Front(confirm_node) = cwd
              /\ \E r \in 1..Len(items) : items[r] = confirm_node)
    /\ [](delpc \in {"deleting", "raised"} =>
              /\ confirm_node # None
              /\ delkeys = AllKeys(tree, confirm_node)
              /\ \A c \in 1..Len(calls) :
                     Range(calls[c]) \subseteq KeysBelow(tree, confirm_node))
    /\ [][ /\ (confirm_node = None /\ confirm_node' # None) =>
                 (ActionDelete /\ confirm_node' = Sel)
           /\ (confirm_node # None /\ confirm_node' # None) =>
                 confirm_node' = confirm_node
           /\ (ActionConfirmYes /\ confirm_node = None) => UNCHANGED vars
           /\ (delpc = "idle" /\ delpc' # "idle") =>
                 (ActionConfirmYes /\ confirm_node # None)
           /\ (phase = "Browsing" /\ bucket' # bucket) =>
                 /\ delpc = "deleting" /\ confirm_node # None
                 /\ DOMAIN bucket' \subseteq DOMAIN bucket
                 /\ (DOMAIN bucket \ DOMAIN bucket') \subseteq KeysBelow(tree, confirm_node)
           /\ (phase = "Browsing" /\ tree' # tree) =>
                 /\ delpc = "deleting" /\ confirm_node # None
                 /\ tree' = Remove(tree, confirm_node)
         ]_vars

C19_Witness ==
    /\ delpc = "deleting" /\ calls # <<>>
    /\ Sel # None /\ Sel # confirm_node
    /\ Front(Sel) = Front(confirm_node)

====
